---- MODULE Spec2Model ----
(***************************************************************************)
(* CloudFormation YAML validator: the reference extractor, the            *)
(* referenceable collector, the sub-stack parameter matcher, the position *)
(* mapper and the diagnostic registry of CloudformationYaml.               *)
(*                                                                         *)
(* Source text is a TLA+ string; offsets are zero-based as in the code,    *)
(* so the character at offset o is SubSeq(text, o + 1, o + 1).             *)
(***************************************************************************)
EXTENDS Integers, Sequences, FiniteSets, TLC

VARIABLES
  documents,            \* vscode.workspace.textDocuments: uri -> open document (its template) or Closed
  activeTextEditor,     \* vscode.window.activeTextEditor: a uri, or NoEditor
  files,                \* the file system next to the root document: path -> child file
  diagnosticCollection, \* this.diagnosticCollection: uri -> sequence of diagnostics
  pass,                 \* the locals of the last checkYaml call
  text,                 \* getRowColumnPosition: its text argument
  absolutePosition,     \* getRowColumnPosition: its absolutePosition argument
  position              \* getRowColumnPosition: what the last call returned

vars == <<documents, activeTextEditor, files, diagnosticCollection, pass,
          text, absolutePosition, position>>

-----------------------------------------------------------------------------
(* Bounds of the model *)

MaxStacks == 2        \* child-stack resources in one root document
MaxPlaceholders == 2  \* ${...} placeholders in one !Sub scalar
MaxTextLen == 4       \* length of the texts getRowColumnPosition is tried on

-----------------------------------------------------------------------------
(* YAML nodes, as YAML.parseDocument(text, {keepCstNodes: true}) returns    *)
(* them: every node has a type, a tag ("" when it has none), and range[1], *)
(* the offset of its first character, tag included.                        *)

NoTag == ""
Undefined == [type |-> "UNDEFINED", tag |-> NoTag, value |-> "", stringKey |-> "",
              items |-> <<>>, range |-> <<0, 0>>, keyRange |-> <<0, 0>>,
              references |-> <<>>]

Scalar(type, tag, value) == [Undefined EXCEPT !.type = type, !.tag = tag, !.value = value]
Plain(tag, value) == Scalar("PLAIN", tag, value)
Quoted(tag, value) == Scalar("QUOTE_DOUBLE", tag, value)
FlowSeq(tag, items) == [Undefined EXCEPT !.type = "FLOW_SEQ", !.tag = tag, !.items = items]
BlockSeq(tag, items) == [Undefined EXCEPT !.type = "SEQ", !.tag = tag, !.items = items]
Map(items) == [Undefined EXCEPT !.type = "MAP", !.items = items]
FlowMap(items) == [Undefined EXCEPT !.type = "FLOW_MAP", !.items = items]
\* A map entry. Its value is kept in items[1] so that every node has the same fields.
Pair(stringKey, value) == [Undefined EXCEPT !.type = "PAIR", !.stringKey = stringKey,
                                            !.items = <<value>>]
PairValue(pair) == pair.items[1]

IsScalarType(type) == type \in {"PLAIN", "QUOTE_DOUBLE"}

-----------------------------------------------------------------------------
(* The source text of a node tree, and the tree with the offsets the       *)
(* parser records for that text.                                          *)

\* LET x == value IN Body(x), with value computed once however often Body reads x.
Let(value, Body(_)) == CHOOSE result \in {Body(x) : x \in {value}} : TRUE

Blanks == "                "
Spaces(n) == SubSeq(Blanks, 1, n)
TagPrefix(tag) == IF tag = NoTag THEN "" ELSE tag \o " "

RECURSIVE Layout(_, _, _)
RECURSIVE LayoutSeqItems(_, _, _, _)
RECURSIVE LayoutBlockSeqItems(_, _, _, _)
RECURSIVE LayoutPairs(_, _, _, _)
RECURSIVE LayoutFlowPairs(_, _, _, _)

\* Flow sequence items from the i-th on, the first of them at offset start.
LayoutSeqItems(items, i, indent, start) ==
  IF i > Len(items) THEN [text |-> "", nodes |-> <<>>]
  ELSE Let(IF i < Len(items) THEN ", " ELSE "", LAMBDA sep :
       Let(Layout(items[i], indent, start), LAMBDA one :
       Let(start + Len(one.text) + Len(sep), LAMBDA next :
       Let(LayoutSeqItems(items, i + 1, indent, next), LAMBDA rest :
         [text |-> one.text \o sep \o rest.text, nodes |-> <<one.node>> \o rest.nodes]))))

\* Flow map entries ("key: value", comma-separated) from the i-th on.
LayoutFlowPairs(pairs, i, indent, start) ==
  IF i > Len(pairs) THEN [text |-> "", nodes |-> <<>>]
  ELSE Let(pairs[i], LAMBDA p :
       Let(IF i < Len(pairs) THEN ", " ELSE "", LAMBDA sep :
       Let(Layout(PairValue(p), indent, start + Len(p.stringKey) + 2), LAMBDA one :
       Let(start + Len(p.stringKey) + 2 + Len(one.text), LAMBDA end :
       Let(LayoutFlowPairs(pairs, i + 1, indent, end + Len(sep)), LAMBDA rest :
         [text |-> p.stringKey \o ": " \o one.text \o sep \o rest.text,
          nodes |-> <<[p EXCEPT !.items = <<one.node>>,
                                !.range = <<start, end>>,
                                !.keyRange = <<start, start + Len(p.stringKey)>>]>>
                    \o rest.nodes])))))

\* Block sequence items ("- item" lines) from the i-th on.
LayoutBlockSeqItems(items, i, indent, start) ==
  IF i > Len(items) THEN [text |-> "", nodes |-> <<>>]
  ELSE Let(Spaces(indent) \o "- ", LAMBDA lead :
       Let(Layout(items[i], indent + 2, start + Len(lead)), LAMBDA one :
       Let(lead \o one.text \o "\n", LAMBDA line :
       Let(start + Len(line), LAMBDA next :
       Let(LayoutBlockSeqItems(items, i + 1, indent, next), LAMBDA rest :
         [text |-> line \o rest.text, nodes |-> <<one.node>> \o rest.nodes])))))

\* The "key:" of a block map entry, up to where its value starts: a nested block map
\* or sequence starts on the next line, any other value after one blank.
PairLead(p, indent) ==
  LET v == PairValue(p)
      nested == v.type \in {"MAP", "SEQ"}
  IN Spaces(indent) \o p.stringKey \o ":"
     \o (IF nested /\ v.tag # NoTag THEN " " \o v.tag ELSE "")
     \o (IF nested THEN "\n" ELSE " ")

\* Block map entries from the i-th on, one "key: value" line (or a nested block) each.
LayoutPairs(pairs, i, indent, start) ==
  IF i > Len(pairs) THEN [text |-> "", nodes |-> <<>>]
  ELSE Let(pairs[i], LAMBDA p :
       Let(PairLead(p, indent), LAMBDA lead :
       Let(Layout(PairValue(p), indent + 2, start + Len(lead)), LAMBDA one :
       Let(lead \o one.text \o (IF PairValue(p).type \in {"MAP", "SEQ"} THEN "" ELSE "\n"),
           LAMBDA body :
       Let(start + Len(body), LAMBDA next :
       Let(LayoutPairs(pairs, i + 1, indent, next), LAMBDA rest :
         [text |-> body \o rest.text,
          nodes |-> <<[p EXCEPT !.items = <<one.node>>,
                                !.range = <<start + indent, next>>,
                                !.keyRange = <<start + indent,
                                               start + indent + Len(p.stringKey)>>]>>
                    \o rest.nodes]))))))

Layout(n, indent, start) ==
  CASE n.type = "PLAIN" ->
         Let(TagPrefix(n.tag) \o n.value, LAMBDA src :
           [text |-> src, node |-> [n EXCEPT !.range = <<start, start + Len(src)>>]])
    [] n.type = "QUOTE_DOUBLE" ->
         Let(TagPrefix(n.tag) \o "\"" \o n.value \o "\"", LAMBDA src :
           [text |-> src, node |-> [n EXCEPT !.range = <<start, start + Len(src)>>]])
    [] n.type = "FLOW_SEQ" ->
         Let(TagPrefix(n.tag) \o "[", LAMBDA open :
         Let(LayoutSeqItems(n.items, 1, indent, start + Len(open)), LAMBDA inner :
         Let(open \o inner.text \o "]", LAMBDA src :
           [text |-> src,
            node |-> [n EXCEPT !.items = inner.nodes, !.range = <<start, start + Len(src)>>]])))
    [] n.type = "FLOW_MAP" ->
         Let(LayoutFlowPairs(n.items, 1, indent, start + 1), LAMBDA inner :
           [text |-> "{" \o inner.text \o "}",
            node |-> [n EXCEPT !.items = inner.nodes,
                               !.range = <<start, start + Len(inner.text) + 2>>]])
    [] n.type = "SEQ" ->
         Let(LayoutBlockSeqItems(n.items, 1, indent, start), LAMBDA inner :
           [text |-> inner.text,
            node |-> [n EXCEPT !.items = inner.nodes,
                               !.range = <<start, start + Len(inner.text)>>]])
    [] n.type = "MAP" ->
         Let(LayoutPairs(n.items, 1, indent, start), LAMBDA inner :
           [text |-> inner.text,
            node |-> [n EXCEPT !.items = inner.nodes,
                               !.range = <<start + indent, start + Len(inner.text)>>]])
    [] OTHER -> [text |-> "", node |-> n]

-----------------------------------------------------------------------------
(* common/Yaml helpers and the yaml library's Collection.get               *)

\* yaml: Collection.get(key, keepScalar = true): the value node of the entry, or undefined.
RECURSIVE FindPair(_, _, _)
FindPair(items, key, i) ==
  IF i > Len(items) THEN Undefined
  ELSE IF items[i].type = "PAIR" /\ items[i].stringKey = key THEN items[i]
  ELSE FindPair(items, key, i + 1)

getNodeItemByStringKey(node, key) == FindPair(node.items, key, 1)

GetNode(node, key) ==
  LET pair == getNodeItemByStringKey(node, key)
  IN IF pair.type = "PAIR" THEN PairValue(pair) ELSE Undefined

\* The value node of a map entry, carrying the entry's key and, when it has no tag
\* of its own, the tag the entry inherited; any other node as it is.
getNodeValueIfPair(node) ==
  IF node.type = "PAIR"
  THEN LET v == PairValue(node)
       IN [v EXCEPT !.stringKey = node.stringKey,
                    !.tag = IF v.tag # NoTag THEN v.tag ELSE node.tag]
  ELSE node

getYamlNodeKeys(yamlNode) ==
  IF yamlNode.type \in {"MAP", "FLOW_MAP", "SEQ", "FLOW_SEQ"}     \* yamlNode.items is there
  THEN [i \in 1..Len(yamlNode.items) |-> yamlNode.items[i].stringKey]
  ELSE <<>>

RECURSIVE flattenArray(_)
flattenArray(arrays) ==
  IF arrays = <<>> THEN <<>> ELSE Head(arrays) \o flattenArray(Tail(arrays))

IndexOf(array, x) ==
  IF \E i \in 1..Len(array) : array[i] = x
  THEN (CHOOSE i \in 1..Len(array) : array[i] = x /\ \A j \in 1..(i - 1) : array[j] # x) - 1
  ELSE -1

-----------------------------------------------------------------------------
(* Position Mapper                                                         *)

CharAt(str, i) == SubSeq(str, i + 1, i + 1)
Substring(str, from, to) == SubSeq(str, from + 1, to)
\* A test for the whole string being the prefix.
EqualsPrefix(str, prefix) == str = prefix

StartsWith(str, prefix) == Len(str) >= Len(prefix) /\ Substring(str, 0, Len(prefix)) = prefix

\* The matches of new RegExp('\r?\n', 'g') in str, as the exec loop collects them:
\* one for every "\n", begun by the "\r" before it when there is one (a "\r" is never
\* part of an earlier match, which ends with its own "\n").
LineReturnMatches(str) ==
  {[index |-> IF i > 0 /\ CharAt(str, i - 1) = "\r" THEN i - 1 ELSE i,
    length |-> IF i > 0 /\ CharAt(str, i - 1) = "\r" THEN 2 ELSE 1] :
     i \in {j \in 0..(Len(str) - 1) : CharAt(str, j) = "\n"}}

\* matches[matches.length - 1] is undefined when there is no line return before the
\* position; reading its index throws a TypeError.
Thrown == [threw |-> TRUE, line |-> 0, column |-> 0]

getRowColumnPosition(fullText, absPosition) ==
  Let(Substring(fullText, 0, absPosition), LAMBDA textBefore :
  Let(LineReturnMatches(textBefore), LAMBDA matches :
    IF matches = {} THEN Thrown
    ELSE Let(CHOOSE m \in matches : \A other \in matches : other.index <= m.index,
             LAMBDA lastLineReturn :
           [threw |-> FALSE, line |-> Cardinality(matches),
            column |-> absPosition - (lastLineReturn.index + lastLineReturn.length)])))

-----------------------------------------------------------------------------
(* Tag Offset Table and Reference Extractor                                *)

RefTagSkip == 5       \* '!Ref ' and '!Sub '
GetAttTagSkip == 8    \* '!GetAtt '
SubOpenSkip == 2      \* '${'

\* Maps.nodeTypeToSubOffset
nodeTypeToSubOffset(type) == IF type = "QUOTE_DOUBLE" THEN 1 ELSE 0

\* Maps.nodeTagToReferenceType
nodeTagToReferenceType(nodeTag) ==
  CASE nodeTag = "!If" -> "IF"
    [] nodeTag = "!FindInMap" -> "FIND_IN_MAP"
    [] nodeTag = "DependsOn" -> "DEPENDS_ON"
    [] OTHER -> "UNKNOWN"

\* The offset of the first '}' of str at or after offset from, or -1.
RECURSIVE IndexOfClose(_, _)
IndexOfClose(str, from) ==
  IF from >= Len(str) THEN -1
  ELSE IF CharAt(str, from) = "}" THEN from
  ELSE IndexOfClose(str, from + 1)

\* A scan that stops at the first match, as exec does on a regular expression without
\* the 'g' flag.
SubMatchesFirstOnly(str, from) ==
  IF \E i \in from..(Len(str) - 3) : Substring(str, i, i + 2) = "${" /\ IndexOfClose(str, i + 2) >= 0
  THEN Let(CHOOSE i \in from..(Len(str) - 3) :
             /\ Substring(str, i, i + 2) = "${" /\ IndexOfClose(str, i + 2) >= 0
             /\ \A j \in from..(i - 1) :
                  ~(Substring(str, j, j + 2) = "${" /\ IndexOfClose(str, j + 2) >= 0),
           LAMBDA i : <<[index |-> i, match |-> Substring(str, i, IndexOfClose(str, i + 2) + 1)]>>)
  ELSE <<>>

\* The matches of new RegExp('\\${[^}]*}', 'g') in str, found by repeated exec from
\* offset from: each is '${', then everything up to the first '}'.
RECURSIVE SubMatches(_, _)
SubMatches(str, from) ==
  IF from + 2 >= Len(str) THEN <<>>
  ELSE IF Substring(str, from, from + 2) = "${"
       THEN LET close == IndexOfClose(str, from + 2)
            IN IF close < 0 THEN <<>>
               ELSE <<[index |-> from, match |-> Substring(str, from, close + 1)]>>
                    \o SubMatches(str, close + 1)
  ELSE SubMatches(str, from + 1)

SubReference(nodeValue, match) ==
  [type |-> "SUB",
   referencedKey |-> Substring(match.match, 2, Len(match.match) - 1),
   absoluteKeyPosition |-> nodeValue.range[1] + RefTagSkip + nodeTypeToSubOffset(nodeValue.type)
                           + SubOpenSkip + match.index]

RECURSIVE getSubNodesWhichReference(_)
RECURSIVE ExtractEach(_)

\* items.map((item) => this.getSubNodesWhichReference(item)), flattened
ExtractEach(items) ==
  IF items = <<>> THEN <<>>
  ELSE Let(Head(items), LAMBDA item :
       Let(Tail(items), LAMBDA others :
         getSubNodesWhichReference(item) \o ExtractEach(others)))

InheritTag(item, tag) == IF item.tag = NoTag THEN [item EXCEPT !.tag = tag] ELSE item

\* A tag test that takes any key or other tag for a referencing one.
ScalarReferencesOfAnyKey(nodeValue) ==
  LET nodeTag == IF nodeValue.tag # NoTag THEN nodeValue.tag ELSE nodeValue.stringKey
  IN IF nodeTag \notin {"", "!GetAtt", "!Ref", "!Sub"}
     THEN <<[nodeValue EXCEPT !.references =
               <<[type |-> nodeTagToReferenceType(nodeTag),
                  referencedKey |-> nodeValue.value,
                  absoluteKeyPosition |-> nodeValue.range[1]]>>]>>
     ELSE <<>>

ScalarReferences(nodeValue) ==
  LET nodeTag == IF nodeValue.tag # NoTag THEN nodeValue.tag ELSE nodeValue.stringKey
  IN CASE nodeTag \in {"!If", "!FindInMap", "DependsOn"} ->
            <<[nodeValue EXCEPT !.references =
                 <<[type |-> nodeTagToReferenceType(nodeTag),
                    referencedKey |-> nodeValue.value,
                    absoluteKeyPosition |-> nodeValue.range[1]]>>]>>
       [] nodeValue.tag = "!GetAtt" ->
            <<[nodeValue EXCEPT !.references =
                 <<[type |-> "GET_ATT",
                    referencedKey |-> nodeValue.value,
                    absoluteKeyPosition |-> nodeValue.range[1] + GetAttTagSkip]>>]>>
       [] nodeValue.tag = "!Ref" /\ ~StartsWith(nodeValue.value, "AWS::") ->
            <<[nodeValue EXCEPT !.references =
                 <<[type |-> "REF",
                    referencedKey |-> nodeValue.value,
                    absoluteKeyPosition |-> nodeValue.range[1] + RefTagSkip]>>]>>
       [] nodeValue.tag = "!Sub" ->
            Let(SubMatches(nodeValue.value, 0), LAMBDA matches :
              <<[nodeValue EXCEPT !.references =
                   [i \in 1..Len(matches) |-> SubReference(nodeValue, matches[i])]]>>)
       [] OTHER -> <<>>

getSubNodesWhichReference(node) ==
  IF node.type = "UNDEFINED" THEN <<>>
  ELSE Let(getNodeValueIfPair(node), LAMBDA nodeValue :
         IF nodeValue.type = "FLOW_SEQ" /\ nodeValue.items # <<>>
         THEN Let(InheritTag(Head(nodeValue.items), nodeValue.tag), LAMBDA first :
                getSubNodesWhichReference(first) \o ExtractEach(Tail(nodeValue.items)))
         ELSE IF nodeValue.type = "MAP"
         THEN Let([i \in 1..Len(nodeValue.items) |->
                     InheritTag(nodeValue.items[i], nodeValue.tag)], LAMBDA items :
                ExtractEach(items))
         ELSE IF IsScalarType(nodeValue.type) THEN ScalarReferences(nodeValue)
         ELSE <<>>)

\* yaml: Document.get(key) hands back a collection node as it is and, of a scalar,
\* its value: a string, which has no type.
DocumentGet(document, key) ==
  LET node == GetNode(document, key)
  IN IF IsScalarType(node.type) THEN Undefined ELSE node

getNodesWhichReference(document) ==
  getSubNodesWhichReference(DocumentGet(document, "Resources"))
  \o getSubNodesWhichReference(DocumentGet(document, "Outputs"))

-----------------------------------------------------------------------------
(* Root documents. A template names what the document holds; getText is    *)
(* its source text and parseDocument the tree the parser builds from it.   *)

StackType == "AWS::CloudFormation::Stack"
Digits == "123456789"
StackName(i) == "S" \o SubSeq(Digits, i, i)
TemplateUrlOf(i) == IF i % 2 = 1 THEN "c.yaml" ELSE "d.yaml"

\* One child-stack resource: with or without Properties, and in them no Parameters
\* block ("none"), an empty one ("empty": Parameters: {}) or a block of supplied names.
StackResource(i, shape) ==
  LET parameters ==
        CASE shape.parameters = "none" -> <<>>
          [] shape.parameters = "empty" -> <<Pair("Parameters", FlowMap(<<>>))>>
          [] OTHER -> <<Pair("Parameters",
                             Map([k \in 1..Len(shape.supplied) |->
                                    Pair(shape.supplied[k], Plain(NoTag, "v"))]))>>
      properties ==
        IF shape.properties
        THEN <<Pair("Properties",
                    Map(<<Pair("TemplateURL", Plain(NoTag, TemplateUrlOf(i)))>> \o parameters))>>
        ELSE <<>>
  IN Pair(StackName(i), Map(<<Pair("Type", Plain(NoTag, StackType))>> \o properties))

Section(name, keys, value) ==
  IF keys = <<>> THEN <<>>
  ELSE <<Pair(name, Map([i \in 1..Len(keys) |-> Pair(keys[i], value)]))>>

Declared(template, name) == IF name \in template.decl THEN <<name>> ELSE <<>>

Tree(template) ==
  LET inResources == IF template.at = "Resources" THEN template.value ELSE Plain(NoTag, "v")
      dependsOn == IF template.dependsOn.type = "UNDEFINED" THEN <<>>
                   ELSE <<Pair("DependsOn", template.dependsOn)>>
      resourceA == Pair("A", Map(<<Pair("Type", Plain(NoTag, "T"))>> \o dependsOn
                                 \o <<Pair("Properties", Map(<<Pair("X", inResources)>>))>>))
      stacks == [i \in 1..Len(template.stacks) |-> StackResource(i, template.stacks[i])]
      outputs == IF template.at = "Outputs"
                 THEN <<Pair("Outputs", Map(<<Pair("O1", Map(<<Pair("Value", template.value)>>))>>))>>
                 ELSE <<>>
  IN Map(Section("Parameters", Declared(template, "Pm"), Map(<<Pair("Type", Plain(NoTag, "String"))>>))
         \o Section("Conditions", Declared(template, "Cn"), Plain(NoTag, "true"))
         \o Section("Mappings", Declared(template, "Mp"), Map(<<Pair("k", Plain(NoTag, "v"))>>))
         \o <<Pair("Resources", Map(<<resourceA>> \o stacks))>>
         \o outputs)

\* editor.document.getText()
getText(template) == Let(Tree(template), LAMBDA tree : Layout(tree, 0, 0)).text
\* YAML.parseDocument(fullText, { keepCstNodes: true }).contents
parseDocument(template) == Let(Tree(template), LAMBDA tree : Layout(tree, 0, 0)).node

-----------------------------------------------------------------------------
(* Diagnostics and the registry                                            *)

\* common/Diagnostics createDiagnostic: a single-line range of the given length.
createDiagnostic(pos, length, severity, message) ==
  [range |-> <<pos.line, pos.column, pos.line, pos.column + length>>,
   severity |-> severity, message |-> message]

\* A delete that leaves the entry as it is.
KeepDiagnostics(collection, uri) == collection

\* A delete that empties the whole registry, as diagnosticCollection.clear() does.
ClearDiagnostics(collection, uri) == [u \in DOMAIN collection |-> <<>>]

\* this.diagnosticCollection.delete(uri)
deleteDiagnostics(collection, uri) == [collection EXCEPT ![uri] = <<>>]

\* The pass so far: the registry, and whether an exception is on its way to the catch
\* of checkYaml. Nothing is added once it is.
addDiagnostic(st, uri, pos, length, severity, message) ==
  IF st.threw THEN st
  ELSE IF pos.threw THEN [st EXCEPT !.threw = TRUE]
  ELSE [st EXCEPT !.collection[uri] =
                    Append(@, createDiagnostic(pos, length, severity, message))]

Throw(st) == [st EXCEPT !.threw = TRUE]

-----------------------------------------------------------------------------
(* Referenceable Collector                                                 *)

\* JavaScript's !!value of what Collection.get hands back for a scalar entry.
Truthy(node) ==
  /\ node.type # "UNDEFINED"
  /\ ~(IsScalarType(node.type) /\ node.value = "")
  /\ ~(node.type = "PLAIN" /\ node.value \in {"0", "false", "null", "~"})

\* typeof properties.get('TemplateURL') === 'string'
IsLiteral(node) == IsScalarType(node.type)

RECURSIVE getSubStackNodePairs(_)
RECURSIVE SubStackNodePairsOfEach(_)
SubStackNodePairsOfEach(items) ==
  IF items = <<>> THEN <<>>
  ELSE Let(Head(items), LAMBDA item :
       Let(Tail(items), LAMBDA others :
         getSubStackNodePairs(item) \o SubStackNodePairsOfEach(others)))

getSubStackNodePairs(node) ==
  IF node.type = "UNDEFINED" THEN <<>>
  ELSE Let(getNodeValueIfPair(node), LAMBDA nodeValue :
         IF nodeValue.type = "MAP"
         THEN Let(GetNode(nodeValue, "Type"), LAMBDA type :
                IF IsScalarType(type.type) /\ type.value = StackType
                THEN <<node>>
                ELSE SubStackNodePairsOfEach(nodeValue.items))
         ELSE <<>>)

findSubStackNodePairs(document) ==
  getSubStackNodePairs(getNodeItemByStringKey(document, "Resources"))

\* The parameters a child document declares: one entry for each declaration that is a
\* map, with hasDefault = !!item.value.get('Default').
ChildParameters(child) ==
  Let(SelectSeq(GetNode(child, "Parameters").items,
                LAMBDA item : item.type = "PAIR" /\ PairValue(item).type = "MAP"),
      LAMBDA declared :
        [i \in 1..Len(declared) |->
           [parameterName |-> declared[i].stringKey,
            hasDefault |-> Truthy(GetNode(PairValue(declared[i]), "Default"))]])

ChildOutputs(nodePair, child) ==
  Let(getYamlNodeKeys(GetNode(child, "Outputs")), LAMBDA outputKeys :
    [i \in 1..Len(outputKeys) |-> nodePair.stringKey \o ".Outputs." \o outputKeys[i]])

SetParameters(parameters, templateUrl, list) ==
  [u \in DOMAIN parameters \cup {templateUrl} |->
     IF u = templateUrl THEN list ELSE parameters[u]]

\* The message of the load diagnostic is kept up to the path; the code appends the
\* parent path and the serialised error.
\* One turn of the forEach of getSubStackReferenceables. acc holds the pass so far
\* (st), the outputs and the parameters collected so far.
SubStackReferenceablesOf(acc, fullText, uri, nodePair, fs) ==
  IF acc.st.threw THEN acc
  ELSE
  Let(GetNode(PairValue(nodePair), "Properties"), LAMBDA properties :
    IF properties.type \notin {"MAP", "FLOW_MAP"}
    THEN [acc EXCEPT !.st = Throw(@)]           \* properties.get is not there to call
    ELSE
    Let(GetNode(properties, "TemplateURL"), LAMBDA templateUrl :
      IF ~IsLiteral(templateUrl) THEN acc
      ELSE
      Let(templateUrl.value, LAMBDA url :
      Let(fs[url], LAMBDA file :
      Let(SetParameters(acc.parameters, url, <<>>), LAMBDA cleared :
        IF ~file.readable
        THEN Let(getRowColumnPosition(fullText, templateUrl.range[1]), LAMBDA pos :
               [acc EXCEPT !.parameters = cleared,
                           !.st = addDiagnostic(@, uri, pos, Len(url), "Error",
                                    "Unable to load or parse template file, '" \o url \o "'")])
        ELSE IF file.contents.type \notin {"MAP", "FLOW_MAP"}
        THEN [acc EXCEPT !.parameters = cleared, !.st = Throw(@)]
        ELSE [acc EXCEPT !.outputs = @ \o ChildOutputs(nodePair, file.contents),
                         !.parameters = SetParameters(cleared, url,
                                                      ChildParameters(file.contents))])))))

RECURSIVE SubStackReferenceablesFrom(_, _, _, _, _, _)
SubStackReferenceablesFrom(acc, fullText, uri, nodePairs, i, fs) ==
  IF i > Len(nodePairs) THEN acc
  ELSE Let(SubStackReferenceablesOf(acc, fullText, uri, nodePairs[i], fs), LAMBDA next :
         SubStackReferenceablesFrom(next, fullText, uri, nodePairs, i + 1, fs))

getSubStackReferenceables(st, fullText, uri, subStackNodePairs, fs) ==
  SubStackReferenceablesFrom([st |-> st, outputs |-> <<>>, parameters |-> <<>>],
                             fullText, uri, subStackNodePairs, 1, fs)

\* What getReferenceables returns, with the pass so far in st.
getReferenceables(st, fullText, uri, document, fs) ==
  Let(findSubStackNodePairs(document), LAMBDA subStackNodePairs :
  Let(getSubStackReferenceables(st, fullText, uri, subStackNodePairs, fs), LAMBDA sub :
    [st |-> sub.st,
     subStackReferenceables |-> [outputs |-> sub.outputs, parameters |-> sub.parameters],
     parameters |-> getYamlNodeKeys(GetNode(document, "Parameters")),
     resources |-> getYamlNodeKeys(GetNode(document, "Resources")),
     mappings |-> getYamlNodeKeys(GetNode(document, "Mappings")),
     conditions |-> getYamlNodeKeys(GetNode(document, "Conditions"))]))

-----------------------------------------------------------------------------
(* Reference resolution                                                    *)

\* Maps.referenceTypeToDiagnosticMessage[reference.type](reference.referencedKey)
referenceTypeToDiagnosticMessage(type, referencedKey) ==
  "Unable to find referenced variable, '" \o referencedKey \o "' (" \o type \o ")"

\* A lookup that lets a GetAtt name resolve against the local names as well.
ReferenceDiagnosticOfAnyName(st, fullText, uri, referenceables, localReferenceables, reference) ==
  IF st.threw THEN st
  ELSE Let(getRowColumnPosition(fullText, reference.absoluteKeyPosition), LAMBDA pos :
         IF pos.threw THEN Throw(st)
         ELSE IF IndexOf(localReferenceables \o referenceables.subStackReferenceables.outputs,
                         reference.referencedKey) < 0
         THEN addDiagnostic(st, uri, pos, Len(reference.referencedKey), "Error",
                            referenceTypeToDiagnosticMessage(reference.type,
                                                             reference.referencedKey))
         ELSE st)

\* One turn of the inner forEach of buildInvalidReferenceDiagnostics. The position is
\* computed before the reference is looked up.
ReferenceDiagnosticOf(st, fullText, uri, referenceables, localReferenceables, reference) ==
  IF st.threw THEN st
  ELSE
  Let(getRowColumnPosition(fullText, reference.absoluteKeyPosition), LAMBDA pos :
    LET message == referenceTypeToDiagnosticMessage(reference.type, reference.referencedKey)
        length == Len(reference.referencedKey)
    IN IF pos.threw THEN Throw(st)
       ELSE IF reference.type = "GET_ATT"
       THEN IF IndexOf(referenceables.subStackReferenceables.outputs, reference.referencedKey) < 0
            THEN addDiagnostic(st, uri, pos, length, "Error", message)
            ELSE st
       ELSE IF IndexOf(localReferenceables, reference.referencedKey) < 0
            THEN addDiagnostic(st, uri, pos, length, "Error", message)
            ELSE st)

RECURSIVE ReferenceDiagnosticsFrom(_, _, _, _, _, _, _)
ReferenceDiagnosticsFrom(st, fullText, uri, referenceables, localReferenceables, references, i) ==
  IF i > Len(references) THEN st
  ELSE Let(ReferenceDiagnosticOf(st, fullText, uri, referenceables, localReferenceables,
                                 references[i]), LAMBDA next :
         ReferenceDiagnosticsFrom(next, fullText, uri, referenceables, localReferenceables,
                                  references, i + 1))

\* Local names without the Conditions and Mappings keys.
ParametersAndResources(referenceables) ==
  referenceables.parameters \o referenceables.resources

LocalReferenceables(referenceables) ==
  referenceables.conditions \o referenceables.mappings
  \o referenceables.parameters \o referenceables.resources

\* node.references of every node, in the order the two forEach visit them
AllReferences(nodesWhichReference) ==
  flattenArray([i \in 1..Len(nodesWhichReference) |-> nodesWhichReference[i].references])

buildInvalidReferenceDiagnostics(st, fullText, uri, referenceables, nodesWhichReference) ==
  Let(LocalReferenceables(referenceables), LAMBDA localReferenceables :
  Let(AllReferences(nodesWhichReference), LAMBDA references :
    ReferenceDiagnosticsFrom(st, fullText, uri, referenceables, localReferenceables,
                             references, 1)))

-----------------------------------------------------------------------------
(* Sub-Stack Parameter Matcher                                             *)

PropertiesKeyLength == 10   \* 'Properties'.length

\* referenceableParameters.find(...) and splice: the list without its first entry
\* named name, or the list as it is when there is none.
RemoveFirstNamed(list, name) ==
  IF \E k \in 1..Len(list) : list[k].parameterName = name
  THEN Let(CHOOSE k \in 1..Len(list) :
              /\ list[k].parameterName = name
              /\ \A j \in 1..(k - 1) : list[j].parameterName # name,
            LAMBDA k : SubSeq(list, 1, k - 1) \o SubSeq(list, k + 1, Len(list)))
  ELSE list

HasNamed(list, name) == \E k \in 1..Len(list) : list[k].parameterName = name

\* The forEach over the parameters the parent supplies, from the i-th on.
RECURSIVE SuppliedFrom(_, _, _, _, _)
SuppliedFrom(acc, fullText, uri, items, i) ==
  IF i > Len(items) THEN acc
  ELSE Let(items[i], LAMBDA parameterPair :
       Let(parameterPair.stringKey, LAMBDA stringKey :
       Let(IF HasNamed(acc.remaining, stringKey)
           THEN [acc EXCEPT !.remaining = RemoveFirstNamed(@, stringKey)]
           ELSE Let(getRowColumnPosition(fullText, parameterPair.keyRange[1]), LAMBDA pos :
                  [acc EXCEPT !.st = addDiagnostic(@, uri, pos, Len(stringKey), "Error",
                                       "Referenced file does not have parameter, '"
                                       \o stringKey \o "'")]),
           LAMBDA next : SuppliedFrom(next, fullText, uri, items, i + 1))))

\* The forEach over the child parameters that were not supplied, from the i-th on.
RECURSIVE MissingFrom(_, _, _, _, _, _)
MissingFrom(st, fullText, uri, propertiesPair, remaining, i) ==
  IF i > Len(remaining) THEN st
  ELSE LET referenceableParameter == remaining[i]
           message == IF referenceableParameter.hasDefault
                      THEN "Properties missing value for parameter with default value, '"
                           \o referenceableParameter.parameterName \o "'"
                      ELSE "Properties missing value for required parameter, '"
                           \o referenceableParameter.parameterName \o "'"
           severity == IF referenceableParameter.hasDefault THEN "Warning" ELSE "Error"
       IN Let(getRowColumnPosition(fullText, propertiesPair.keyRange[1]), LAMBDA pos :
          Let(addDiagnostic(st, uri, pos, PropertiesKeyLength, severity, message), LAMBDA next :
            MissingFrom(next, fullText, uri, propertiesPair, remaining, i + 1)))

\* One turn of the forEach of buildInvalidSubStackParameterDiagnostics.
SubStackParameterDiagnosticsOf(st, fullText, uri, subStackReferenceables, subStackNodePair) ==
  IF st.threw THEN st
  ELSE
  Let(PairValue(subStackNodePair), LAMBDA subStackNodeValue :
  Let(getNodeItemByStringKey(subStackNodeValue, "Properties"), LAMBDA propertiesPair :
  Let(getNodeValueIfPair(propertiesPair), LAMBDA properties :
    IF properties.type \notin {"MAP", "FLOW_MAP"} THEN Throw(st)
    ELSE
    Let(GetNode(properties, "TemplateURL"), LAMBDA templateUrl :
    Let(getNodeItemByStringKey(properties, "Parameters"), LAMBDA parametersPair :
    Let(getNodeValueIfPair(parametersPair), LAMBDA parameters :
      IF ~IsLiteral(templateUrl) THEN st
      ELSE IF parameters.type \notin {"MAP", "FLOW_MAP", "FLOW_SEQ", "SEQ"}
      THEN Throw(st)                             \* parameters.items is not there to read
      ELSE
      Let(SuppliedFrom([st |-> st,
                        remaining |-> subStackReferenceables.parameters[templateUrl.value]],
                       fullText, uri, parameters.items, 1), LAMBDA supplied :
        IF supplied.remaining # <<>> /\ parametersPair.type = "PAIR"
        THEN MissingFrom(supplied.st, fullText, uri, parametersPair, supplied.remaining, 1)
        ELSE supplied.st)))))))

RECURSIVE SubStackParameterDiagnosticsFrom(_, _, _, _, _, _)
SubStackParameterDiagnosticsFrom(st, fullText, uri, subStackReferenceables, nodePairs, i) ==
  IF i > Len(nodePairs) THEN st
  ELSE Let(SubStackParameterDiagnosticsOf(st, fullText, uri, subStackReferenceables,
                                          nodePairs[i]), LAMBDA next :
         SubStackParameterDiagnosticsFrom(next, fullText, uri, subStackReferenceables,
                                          nodePairs, i + 1))

buildInvalidSubStackParameterDiagnostics(st, fullText, uri, subStackReferenceables, subStackNodePairs) ==
  SubStackParameterDiagnosticsFrom(st, fullText, uri, subStackReferenceables, subStackNodePairs, 1)

-----------------------------------------------------------------------------
(* Orchestrator: one analysis pass over the active editor's document       *)

\* What is kept of the latest handler that touched a document's diagnostics: whether it
\* was a pass, whether the registry held diagnostics for the document when it began
\* (stale), and the locals of the pass.
NoPass == [ran |-> FALSE, stale |-> FALSE, template |-> Undefined, fullText |-> "",
           extracted |-> FALSE, threw |-> FALSE, localReferenceables |-> <<>>,
           outputs |-> <<>>, nodesWhichReference |-> <<>>]

\* The editor's text and the document the parser builds from it.
Parse(template) ==
  Let(Tree(template), LAMBDA tree :
  Let(Layout(tree, 0, 0), LAMBDA laidOut :
    [fullText |-> laidOut.text, document |-> laidOut.node]))

\* checkYaml from after the parse on.
CheckParsed(collection, uri, template, fullText, document, fs) ==
  Let([collection |-> deleteDiagnostics(collection, uri), threw |-> FALSE], LAMBDA st0 :
  Let(getReferenceables(st0, fullText, uri, document, fs), LAMBDA referenceables :
  Let(referenceables.st, LAMBDA st1 :
  Let(IF st1.threw THEN <<>> ELSE getNodesWhichReference(document),
      LAMBDA nodesWhichReference :
  Let(buildInvalidReferenceDiagnostics(st1, fullText, uri, referenceables,
                                       nodesWhichReference), LAMBDA st2 :
  Let(findSubStackNodePairs(document), LAMBDA subStackNodePairs :
  Let(buildInvalidSubStackParameterDiagnostics(
        st2, fullText, uri, referenceables.subStackReferenceables, subStackNodePairs),
      LAMBDA st3 :
    [collection |-> st3.collection,
     pass |-> [ran |-> TRUE, stale |-> collection[uri] # <<>>, template |-> template,
               fullText |-> fullText,
               extracted |-> ~st1.threw, threw |-> st3.threw,
               localReferenceables |-> LocalReferenceables(referenceables),
               outputs |-> referenceables.subStackReferenceables.outputs,
               nodesWhichReference |-> nodesWhichReference]])))))))

\* checkYaml with an active editor on document uri, whose text is that of template:
\* the registry it leaves, and its locals.
checkYaml(collection, uri, template, fs) ==
  Let(Parse(template), LAMBDA parsed :
    CheckParsed(collection, uri, template, parsed.fullText, parsed.document, fs))

-----------------------------------------------------------------------------
(* The host: documents, the active editor and the events activate()        *)
(* subscribes to                                                           *)

Uris == {"a.yaml", "b.yaml"}
NoEditor == "none"
Closed == [open |-> FALSE, template |-> Undefined]
Open(template) == [open |-> TRUE, template |-> template]

\* What every subscribed handler but the close handler does: checkYaml, which reads
\* vscode.window.activeTextEditor whatever document the event is about.
RunCheckYaml(docs, editor) ==
  IF editor = NoEditor
  THEN /\ diagnosticCollection' = diagnosticCollection
       /\ pass' = pass
  ELSE \E result \in {checkYaml(diagnosticCollection, editor, docs[editor].template, files)} :
         /\ diagnosticCollection' = result.collection
         /\ pass' = [pass EXCEPT ![editor] = result.pass]

\* onDidOpenTextDocument
OpenTextDocument(uri, template) ==
  /\ ~documents[uri].open
  /\ documents' = [documents EXCEPT ![uri] = Open(template)]
  /\ RunCheckYaml(documents', activeTextEditor)
  /\ UNCHANGED <<activeTextEditor, files, text, absolutePosition, position>>

\* onDidChangeTextDocument
ChangeTextDocument(uri, template) ==
  /\ documents[uri].open
  /\ documents' = [documents EXCEPT ![uri] = Open(template)]
  /\ RunCheckYaml(documents', activeTextEditor)
  /\ UNCHANGED <<activeTextEditor, files, text, absolutePosition, position>>

\* onDidSaveTextDocument
SaveTextDocument(uri) ==
  /\ documents[uri].open
  /\ RunCheckYaml(documents, activeTextEditor)
  /\ UNCHANGED <<documents, activeTextEditor, files, text, absolutePosition, position>>

\* onDidChangeActiveTextEditor: an editor on an open document, or none, becomes active
ChangeActiveTextEditor(editor) ==
  /\ editor # activeTextEditor
  /\ IF editor = NoEditor THEN TRUE ELSE documents[editor].open
  /\ activeTextEditor' = editor
  /\ RunCheckYaml(documents, editor)
  /\ UNCHANGED <<documents, files, text, absolutePosition, position>>

\* onDidCloseTextDocument: the host closes a document no editor shows
CloseTextDocument(uri) ==
  /\ documents[uri].open
  /\ uri # activeTextEditor
  /\ documents' = [documents EXCEPT ![uri] = Closed]
  /\ diagnosticCollection' = deleteDiagnostics(diagnosticCollection, uri)
  /\ pass' = [pass EXCEPT ![uri] = [NoPass EXCEPT !.stale = diagnosticCollection[uri] # <<>>]]
  /\ UNCHANGED <<activeTextEditor, files, text, absolutePosition, position>>

\* getRowColumnPosition(text, absolutePosition)
Resolve ==
  /\ position' = [called |-> TRUE, result |-> getRowColumnPosition(text, absolutePosition)]
  /\ UNCHANGED <<documents, activeTextEditor, files, diagnosticCollection, pass,
                 text, absolutePosition>>

-----------------------------------------------------------------------------
(* The documents, child files and texts the model is run on                *)

DeclarableNames == {"Pm", "Cn", "Mp"}   \* a parameter, a condition, a mapping
ScalarTypes == {"PLAIN", "QUOTE_DOUBLE"}

\* The sequences of at most n elements of S.
RECURSIVE SeqsUpTo(_, _)
SeqsUpTo(S, n) ==
  IF n = 0 THEN {<<>>}
  ELSE LET shorter == SeqsUpTo(S, n - 1)
       IN shorter \cup {Append(q, x) : q \in shorter, x \in S}

\* The value of a !Sub scalar with one ${...} placeholder for each name.
RECURSIVE SubText(_)
SubText(names) ==
  IF names = <<>> THEN "lit"
  ELSE "a${" \o Head(names) \o "}" \o (IF Len(names) = 1 THEN "" ELSE SubText(Tail(names)))

RefValues ==
  {Scalar(t, "!Ref", n) : t \in ScalarTypes, n \in {"Pm", "Cn", "Mp", "A", "Zz"}}
  \cup {Plain("!Ref", "AWS::Region"), Quoted("!Ref", "AWS::StackName")}
GetAttValues ==
  {Plain("!GetAtt", n) : n \in {"S1.Outputs.Out", "S1.Outputs.No", "A"}}
  \cup {Quoted("!GetAtt", "S1.Outputs.Out")}
SubValues ==
  {Scalar(t, "!Sub", SubText(names)) :
     t \in ScalarTypes, names \in SeqsUpTo({"Pm", "Zz"}, MaxPlaceholders)}
  \cup {Plain("!Sub", "a${Pm"), Plain("!Sub", "${}b"),
        FlowSeq("!Sub", <<Quoted(NoTag, "a${Zz}"), FlowMap(<<>>)>>)}
IfValues ==
  {FlowSeq("!If", <<Scalar(t, NoTag, n), Plain(NoTag, "v"), Plain("!Ref", "Zz")>>) :
     t \in ScalarTypes, n \in {"Cn", "Zz"}}
FindInMapValues ==
  {FlowSeq("!FindInMap", <<Scalar(t, NoTag, n), Plain(NoTag, "k"), Plain(NoTag, "v")>>) :
     t \in ScalarTypes, n \in {"Mp", "Zz"}}
\* A !Ref under a block sequence, a nested block map, an untagged flow sequence and a
\* flow map.
NestedValues ==
  {BlockSeq(NoTag, <<Plain("!Ref", "Pm"), Plain("!Ref", "Zz")>>),
   Map(<<Pair("K", Plain("!Ref", "Zz"))>>),
   FlowSeq(NoTag, <<Plain("!Ref", "Pm"), Plain("!Ref", "Zz")>>),
   FlowMap(<<Pair("K", Plain("!Ref", "Zz"))>>)}
Untagged == Plain(NoTag, "v")
Values == RefValues \cup GetAttValues \cup SubValues \cup IfValues \cup FindInMapValues
          \cup NestedValues \cup {Untagged}
DependsOnValues == {Plain(NoTag, "A"), Plain(NoTag, "Zz"), Quoted(NoTag, "Zz")}

NoProperties == [properties |-> FALSE, parameters |-> "none", supplied |-> <<>>]
Supplies(names) == [properties |-> TRUE, parameters |-> "block", supplied |-> names]
StackShapes ==
  {NoProperties}
  \cup {[properties |-> TRUE, parameters |-> p, supplied |-> <<>>] : p \in {"none", "empty"}}
  \cup {Supplies(names) : names \in {<<"Foo">>, <<"Baz">>, <<"Foo", "Baz">>}}

\* Documents that differ in their references: every value, in Resources or in Outputs,
\* beside no child stack, a well-formed one or one without Properties.
ReferenceTemplates ==
  {[decl |-> d, at |-> at, value |-> v, dependsOn |-> Undefined, stacks |-> s] :
     d \in SUBSET DeclarableNames, at \in {"Resources", "Outputs"}, v \in Values,
     s \in {<<>>, <<Supplies(<<"Baz">>)>>, <<NoProperties>>}}
  \cup {[decl |-> d, at |-> "Resources", value |-> Untagged, dependsOn |-> v, stacks |-> <<>>] :
          d \in {{}, {"Pm"}}, v \in DependsOnValues}

\* Documents that differ in their child stacks.
StackTemplates ==
  {[decl |-> {}, at |-> "Resources", value |-> v, dependsOn |-> Undefined, stacks |-> s] :
     v \in {Untagged, Plain("!Ref", "Zz")},
     s \in SeqsUpTo(StackShapes, MaxStacks) \ {<<>>}}

\* Child files. A child document declares outputs and parameters; each parameter is
\* <<name, default>>, with default a scalar or Undefined.
ChildDocument(outputKeys, parameters) ==
  Map(Section("Outputs", outputKeys, Map(<<Pair("Value", Plain(NoTag, "v"))>>))
      \o (IF parameters = <<>> THEN <<>>
          ELSE <<Pair("Parameters",
                      Map([i \in 1..Len(parameters) |->
                             Pair(parameters[i][1],
                                  Map(<<Pair("Type", Plain(NoTag, "String"))>>
                                      \o (IF parameters[i][2].type = "UNDEFINED" THEN <<>>
                                          ELSE <<Pair("Default", parameters[i][2])>>)))]))>>))

Unreadable == [readable |-> FALSE, errors |-> FALSE, contents |-> Undefined]  \* readFileSync throws
EmptyFile == [readable |-> TRUE, errors |-> FALSE, contents |-> Undefined]    \* document.contents is null
Malformed == [readable |-> TRUE, errors |-> TRUE, contents |-> Map(<<>>)]     \* document.errors is not empty
ChildFile(outputKeys, parameters) ==
  [readable |-> TRUE, errors |-> FALSE, contents |-> ChildDocument(outputKeys, parameters)]

RequiresBaz == ChildFile(<<"Out">>, <<<<"Baz", Undefined>>>>)
DefaultsBaz == ChildFile(<<>>, <<<<"Baz", Plain(NoTag, "x")>>>>)
EmptyDefaultBaz == ChildFile(<<>>, <<<<"Baz", Quoted(NoTag, "")>>>>)
ZeroDefaultBaz == ChildFile(<<>>, <<<<"Baz", Plain(NoTag, "0")>>>>)

ReferenceFileSystems ==
  {[p \in {"c.yaml", "d.yaml"} |-> c] : c \in {Unreadable, RequiresBaz}}
StackFileSystems ==
  {[p \in {"c.yaml", "d.yaml"} |-> IF p = "c.yaml" THEN c ELSE d] :
     c \in {Unreadable, EmptyFile, Malformed, RequiresBaz, DefaultsBaz, EmptyDefaultBaz,
            ZeroDefaultBaz},
     d \in {Unreadable, RequiresBaz, DefaultsBaz}}

\* The texts the documents of the editing sessions change between: no reference, an
\* unresolved !Ref, two unresolved placeholders, a child stack the parent supplies a
\* wrong parameter to, one without Properties and one without a Parameters block.
EditTemplates ==
  {[decl |-> {"Pm"}, at |-> "Resources", value |-> v, dependsOn |-> Undefined, stacks |-> s] :
     v \in {Untagged, Plain("!Ref", "Zz")}, s \in {<<>>}}
  \cup {[decl |-> {}, at |-> "Outputs", value |-> Plain("!Sub", SubText(<<"Zz", "Pm">>)),
         dependsOn |-> Undefined, stacks |-> s] :
          s \in {<<Supplies(<<"Foo">>)>>, <<NoProperties>>,
                 <<[properties |-> TRUE, parameters |-> "none", supplied |-> <<>>]>>}}
SessionFiles == [p \in {"c.yaml", "d.yaml"} |-> IF p = "c.yaml" THEN RequiresBaz ELSE Unreadable]

Alphabet == {"a", "\n", "\r"}
RECURSIVE TextsUpTo(_)
TextsUpTo(n) ==
  IF n = 0 THEN {""}
  ELSE LET shorter == TextsUpTo(n - 1)
       IN shorter \cup {s \o c : s \in shorter, c \in Alphabet}

-----------------------------------------------------------------------------
(* Specifications                                                          *)

NotCalled == [called |-> FALSE, result |-> Thrown]

\* Editing sessions: documents are opened, edited, saved, shown and closed.
Init ==
  /\ documents = [uri \in Uris |-> Closed]
  /\ activeTextEditor = NoEditor
  /\ files = SessionFiles
  /\ diagnosticCollection = [uri \in Uris |-> <<>>]
  /\ pass = [uri \in Uris |-> NoPass]
  /\ text = ""
  /\ absolutePosition = 0
  /\ position = NotCalled

Next ==
  \/ \E uri \in Uris, template \in EditTemplates : OpenTextDocument(uri, template)
  \/ \E uri \in Uris, template \in EditTemplates : ChangeTextDocument(uri, template)
  \/ \E uri \in Uris : SaveTextDocument(uri)
  \/ \E editor \in Uris \cup {NoEditor} : ChangeActiveTextEditor(editor)
  \/ \E uri \in Uris : CloseTextDocument(uri)

Spec == Init /\ [][Next]_vars

\* One pass over one document: a.yaml is open in the active editor and is saved.
InitPass ==
  /\ \E template \in ReferenceTemplates \cup StackTemplates :
       documents = [uri \in Uris |-> IF uri = "a.yaml" THEN Open(template) ELSE Closed]
  /\ activeTextEditor = "a.yaml"
  /\ \/ documents["a.yaml"].template \in ReferenceTemplates /\ files \in ReferenceFileSystems
     \/ documents["a.yaml"].template \in StackTemplates /\ files \in StackFileSystems
  /\ diagnosticCollection = [uri \in Uris |-> <<>>]
  /\ pass = [uri \in Uris |-> NoPass]
  /\ text = ""
  /\ absolutePosition = 0
  /\ position = NotCalled

NextPass == \E uri \in Uris : SaveTextDocument(uri)

SpecPass == InitPass /\ [][NextPass]_vars

\* The position mapper on its own: every short text, every offset into it.
InitPosition ==
  /\ documents = [uri \in Uris |-> Closed]
  /\ activeTextEditor = NoEditor
  /\ files = SessionFiles
  /\ diagnosticCollection = [uri \in Uris |-> <<>>]
  /\ pass = [uri \in Uris |-> NoPass]
  /\ text \in TextsUpTo(MaxTextLen)
  /\ absolutePosition \in 0..Len(text)
  /\ position = NotCalled

NextPosition == Resolve

SpecPosition == InitPosition /\ [][NextPosition]_vars

-----------------------------------------------------------------------------
(* Properties of the position mapper (under SpecPosition)                  *)

\* The offsets of the "\n" strictly before offset: each ends one line terminator,
\* "\n" or "\r\n".
TerminatorsBefore(str, offset) == {i \in 0..(offset - 1) : CharAt(str, i) = "\n"}

\* The offset just after the last line terminator before offset; 0 on the first line.
LineStartBefore(str, offset) ==
  IF TerminatorsBefore(str, offset) = {} THEN 0
  ELSE 1 + CHOOSE i \in TerminatorsBefore(str, offset) :
             \A j \in TerminatorsBefore(str, offset) : j <= i

\* C2: for every text and every offset from 0 to its length, getRowColumnPosition
\* returns (it does not fail) line = the number of line terminators strictly before the
\* offset and column = the offset minus the offset just after the last of them; on the
\* first line that is line 0 and column = offset.
C2_PositionOfEveryOffset ==
  position.called =>
    /\ ~position.result.threw
    /\ position.result.line = Cardinality(TerminatorsBefore(text, absolutePosition))
    /\ position.result.column = absolutePosition - LineStartBefore(text, absolutePosition)

-----------------------------------------------------------------------------
(* Properties of one pass (under SpecPass)                                 *)

\* The References found by the latest pass over document uri, in extraction order.
References(uri) == AllReferences(pass[uri].nodesWhichReference)

\* The len characters of str from offset on; what is there of them at the end of str.
TextAt(str, offset, len) ==
  Substring(str, offset, IF offset + len <= Len(str) THEN offset + len ELSE Len(str))

\* C1: every Reference the extractor emits, whatever its kind and whether its scalar
\* is plain or double-quoted, carries an offset at which the source text begins with
\* the referenced name.
C1_OffsetPointsAtName ==
  \A uri \in Uris : \A i \in 1..Len(References(uri)) :
    LET reference == References(uri)[i]
    IN TextAt(pass[uri].fullText, reference.absoluteKeyPosition,
              Len(reference.referencedKey)) = reference.referencedKey

\* The keys of the Parameters, Resources, Conditions and Mappings sections of a document.
SectionKeys(template) ==
  template.decl \cup {"A"} \cup {StackName(i) : i \in 1..Len(template.stacks)}

\* The (line, column) of an offset of str, counted from the text itself.
LineColumn(str, offset) ==
  <<Cardinality(TerminatorsBefore(str, offset)), offset - LineStartBefore(str, offset)>>

\* The registered diagnostics of uri that span len characters from offset on.
DiagnosticsAt(uri, offset, len) ==
  LET at == LineColumn(pass[uri].fullText, offset)
  IN {k \in 1..Len(diagnosticCollection[uri]) :
        diagnosticCollection[uri][k].range = <<at[1], at[2], at[1], at[2] + len>>}

\* The registered diagnostics for a Reference: those that span its name.
DiagnosticsFor(uri, reference) ==
  DiagnosticsAt(uri, reference.absoluteKeyPosition, Len(reference.referencedKey))

Severities(uri, found) == {diagnosticCollection[uri][k].severity : k \in found}

\* C3: for every Reference of kind Ref, Sub, If, FindInMap or DependsOn found in a
\* pass, the pass produces no diagnostic when its name is a key of the Parameters,
\* Resources, Conditions or Mappings section, and exactly one Error diagnostic when it
\* is a key of none of them.
C3_LocalNamesResolve ==
  \A uri \in Uris : \A i \in 1..Len(References(uri)) :
    LET reference == References(uri)[i]
        found == DiagnosticsFor(uri, reference)
    IN reference.type # "GET_ATT" =>
         IF reference.referencedKey \in SectionKeys(pass[uri].template)
         THEN found = {}
         ELSE Cardinality(found) = 1 /\ Severities(uri, found) = {"Error"}

\* A pass that found a declared name and an undeclared one side by side.
C3_Witness ==
  \E uri \in Uris : \E i, j \in 1..Len(References(uri)) :
    /\ References(uri)[i].type # "GET_ATT" /\ References(uri)[j].type # "GET_ATT"
    /\ References(uri)[i].referencedKey \in SectionKeys(pass[uri].template)
    /\ DiagnosticsFor(uri, References(uri)[i]) = {}
    /\ References(uri)[j].referencedKey \notin SectionKeys(pass[uri].template)
    /\ Cardinality(DiagnosticsFor(uri, References(uri)[j])) = 1

\* The outputs the child files of a document declare, as <resourceName>.Outputs.<key>.
ChildOutputKeys(template, fs) ==
  UNION {{StackName(i) \o ".Outputs." \o key :
            key \in {getYamlNodeKeys(GetNode(fs[TemplateUrlOf(i)].contents, "Outputs"))[k] :
                       k \in 1..Len(getYamlNodeKeys(GetNode(fs[TemplateUrlOf(i)].contents,
                                                             "Outputs")))}} :
         i \in {j \in 1..Len(template.stacks) :
                  template.stacks[j].properties /\ fs[TemplateUrlOf(j)].readable}}

\* C4: the aggregated sub-stack outputs are the <resourceName>.Outputs.<outputKey> of
\* the child files, and a GetAtt Reference has a diagnostic if and only if its name is
\* not among them, whether or not the name is a local section key.
C4_GetAttResolvesAgainstOutputs ==
  \A uri \in Uris :
    /\ pass[uri].extracted =>
         {pass[uri].outputs[k] : k \in 1..Len(pass[uri].outputs)}
           = ChildOutputKeys(pass[uri].template, files)
    /\ \A i \in 1..Len(References(uri)) :
         LET reference == References(uri)[i]
             found == DiagnosticsFor(uri, reference)
         IN reference.type = "GET_ATT" =>
              IF \E k \in 1..Len(pass[uri].outputs) :
                   pass[uri].outputs[k] = reference.referencedKey
              THEN found = {}
              ELSE Cardinality(found) = 1

\* A GetAtt of a local resource name, which has its diagnostic all the same, in a
\* document whose child file declares an output.
C4_Witness ==
  \E uri \in Uris : \E i \in 1..Len(References(uri)) :
    /\ References(uri)[i].type = "GET_ATT"
    /\ References(uri)[i].referencedKey \in SectionKeys(pass[uri].template)
    /\ Cardinality(DiagnosticsFor(uri, References(uri)[i])) = 1
    /\ pass[uri].outputs # <<>>

\* Placeholders of a !Sub value, read off the text: one opens at i when "${" stands
\* there and a "}" follows; it closes at the first "}" after the "${", and a "${"
\* between an earlier opening and that same "}" is part of the earlier placeholder.
OpensAt(str, i) ==
  /\ Substring(str, i, i + 2) = "${"
  /\ \E j \in (i + 2)..(Len(str) - 1) : CharAt(str, j) = "}"
CloseOf(str, i) ==
  CHOOSE j \in (i + 2)..(Len(str) - 1) :
    CharAt(str, j) = "}" /\ \A k \in (i + 2)..(j - 1) : CharAt(str, k) # "}"
PlaceholderStarts(str) ==
  {i \in 0..(Len(str) - 3) :
     /\ OpensAt(str, i)
     /\ \A h \in 0..(i - 1) : ~(OpensAt(str, h) /\ CloseOf(str, h) = CloseOf(str, i))}
\* Their inner texts, in the order they stand in str.
PlaceholderNames(str) ==
  LET starts == PlaceholderStarts(str)
      nth(k) == CHOOSE i \in starts : Cardinality({h \in starts : h < i}) = k - 1
  IN [k \in 1..Cardinality(starts) |-> Substring(str, nth(k) + 2, CloseOf(str, nth(k)))]

\* The !Sub scalars among the nodes the latest pass over uri extracted.
SubScalars(uri) ==
  {k \in 1..Len(pass[uri].nodesWhichReference) :
     /\ pass[uri].nodesWhichReference[k].tag = "!Sub"
     /\ IsScalarType(pass[uri].nodesWhichReference[k].type)}

\* C10: for a !Sub scalar with n placeholders the extractor emits exactly n References
\* of kind Sub, one per placeholder in order, each named by the placeholder's inner
\* text (none when n = 0), and the pass registers a diagnostic for exactly those whose
\* name is not a local section key.
C10_OneReferencePerPlaceholder ==
  \A uri \in Uris : \A k \in SubScalars(uri) :
    LET node == pass[uri].nodesWhichReference[k]
        names == PlaceholderNames(node.value)
    IN /\ Len(node.references) = Len(names)
       /\ \A m \in 1..Len(names) :
            /\ node.references[m].type = "SUB"
            /\ node.references[m].referencedKey = names[m]
            /\ Cardinality(DiagnosticsFor(uri, node.references[m]))
                 = IF names[m] \in SectionKeys(pass[uri].template) THEN 0 ELSE 1

\* A !Sub scalar with two placeholders of which exactly the second is unresolved.
C10_Witness ==
  \E uri \in Uris : \E k \in SubScalars(uri) :
    LET node == pass[uri].nodesWhichReference[k]
    IN /\ Len(node.references) = 2
       /\ DiagnosticsFor(uri, node.references[1]) = {}
       /\ Cardinality(DiagnosticsFor(uri, node.references[2])) = 1
       /\ Len(diagnosticCollection[uri]) = 1

IntrinsicTags == {"!Ref", "!Sub", "!GetAtt", "!If", "!FindInMap"}
RECURSIVE UsesIntrinsicTag(_)
UsesIntrinsicTag(node) ==
  \/ node.tag \in IntrinsicTags
  \/ \E i \in 1..Len(node.items) : UsesIntrinsicTag(node.items[i])
\* The one place of a template that may carry a tag is its value.
NoIntrinsicTag(template) == ~UsesIntrinsicTag(template.value)

\* C8: as stated. For every document without an intrinsic-function tag the pass leaves
\* no diagnostic, child-stack resources and DependsOn keys or not.
C8_NoTagNoDiagnostics ==
  \A uri \in Uris :
    pass[uri].ran /\ NoIntrinsicTag(pass[uri].template) => diagnosticCollection[uri] = <<>>

\* C8: amended. For every document without an intrinsic-function tag, without a
\* DependsOn key and without a child-stack resource the pass leaves no diagnostic.
C8_NoTagNoDependsOnNoStack ==
  \A uri \in Uris :
    /\ pass[uri].ran
    /\ NoIntrinsicTag(pass[uri].template)
    /\ pass[uri].template.dependsOn.type = "UNDEFINED"
    /\ pass[uri].template.stacks = <<>>
    => diagnosticCollection[uri] = <<>>

\* A pass over such a document, one that declares names in every section.
C8_Witness ==
  \E uri \in Uris :
    /\ pass[uri].ran /\ ~pass[uri].threw
    /\ NoIntrinsicTag(pass[uri].template)
    /\ pass[uri].template.dependsOn.type = "UNDEFINED"
    /\ pass[uri].template.stacks = <<>>
    /\ pass[uri].template.decl = DeclarableNames
    /\ diagnosticCollection[uri] = <<>>

\* The child-stack resources with a literal TemplateURL in the document the latest
\* pass over uri read.
StacksWithUrl(uri) ==
  IF pass[uri].ran
  THEN {i \in 1..Len(pass[uri].template.stacks) : pass[uri].template.stacks[i].properties}
  ELSE {}

\* The i-th child-stack resource as the parser sees it, and the lines it takes up.
ResourcePair(uri, i) ==
  getNodeItemByStringKey(GetNode(Parse(pass[uri].template).document, "Resources"), StackName(i))
LinesOf(uri, node) ==
  LineColumn(pass[uri].fullText, node.range[1])[1]
    .. LineColumn(pass[uri].fullText, node.range[2] - 1)[1]

\* The registered diagnostics of uri on the lines of its i-th child-stack resource.
DiagnosticsOfResource(uri, i) ==
  {k \in 1..Len(diagnosticCollection[uri]) :
     diagnosticCollection[uri][k].range[1] \in LinesOf(uri, ResourcePair(uri, i))}

WithMessage(uri, found, messages) ==
  {k \in found : diagnosticCollection[uri][k].message \in messages}

NoSuchParameter(name) == "Referenced file does not have parameter, '" \o name \o "'"
MissingRequired(name) == "Properties missing value for required parameter, '" \o name \o "'"
MissingDefaulted(name) ==
  "Properties missing value for parameter with default value, '" \o name \o "'"

\* A child file that loads: it is read and parsed into a document.
ChildLoaded(file) == file.readable /\ ~file.errors /\ file.contents.type = "MAP"
\* The names a child file declares under Parameters, and those a resource supplies.
DeclaredBy(file) ==
  LET keys == getYamlNodeKeys(GetNode(file.contents, "Parameters"))
  IN {keys[k] : k \in 1..Len(keys)}
SuppliedBy(shape) == {shape.supplied[k] : k \in 1..Len(shape.supplied)}

\* What the matcher is to register for the i-th resource, given what its child declares:
\* one Error for each name supplied and not declared, one diagnostic for each name
\* declared and not supplied, none for a name both supplied and declared.
ParametersMatched(uri, i, declared) ==
  LET found == DiagnosticsOfResource(uri, i)
      supplied == SuppliedBy(pass[uri].template.stacks[i])
  IN /\ \A name \in supplied \ declared :
          /\ Cardinality(WithMessage(uri, found, {NoSuchParameter(name)})) = 1
          /\ Severities(uri, WithMessage(uri, found, {NoSuchParameter(name)})) = {"Error"}
     /\ \A name \in declared \ supplied :
          Cardinality(WithMessage(uri, found,
                                  {MissingRequired(name), MissingDefaulted(name)})) = 1
     /\ \A name \in supplied \cap declared :
          WithMessage(uri, found, {NoSuchParameter(name), MissingRequired(name),
                                   MissingDefaulted(name)}) = {}

\* C5: for a child-stack resource with a literal TemplateURL the matcher registers
\* exactly one Error 'does not have parameter' for each supplied name the child does
\* not declare, exactly one 'missing value' diagnostic for each declared name the
\* parent does not supply, and nothing for a name both supplied and declared.
C5_ParametersMatched ==
  \A uri \in Uris : \A i \in StacksWithUrl(uri) :
    ChildLoaded(files[TemplateUrlOf(i)])
      => ParametersMatched(uri, i, DeclaredBy(files[TemplateUrlOf(i)]))

\* C6: when the resource supplies no parameters at all (no Parameters block, or an
\* empty one) and the child declares a single parameter, which has a default, the pass
\* registers exactly one diagnostic for the resource, a Warning.
C6_OneWarningForDefault ==
  \A uri \in Uris : \A i \in StacksWithUrl(uri) :
    /\ pass[uri].template.stacks[i].parameters \in {"none", "empty"}
    /\ files[TemplateUrlOf(i)] = DefaultsBaz
    => /\ Cardinality(DiagnosticsOfResource(uri, i)) = 1
       /\ Severities(uri, DiagnosticsOfResource(uri, i)) = {"Warning"}

\* A child file that cannot be read, or cannot be parsed.
FailsToLoad(file) == ~file.readable \/ file.errors
TemplateUrlNode(uri, i) ==
  GetNode(GetNode(PairValue(ResourcePair(uri, i)), "Properties"), "TemplateURL")

\* C7: when a child file cannot be read or parsed, the pass registers one Error at the
\* TemplateURL value of its resource, takes the child to declare nothing (no output of
\* it is collected, every name supplied to it is unknown), and still registers the
\* diagnostic of the document's unresolved reference and the parameter diagnostics of
\* every other child-stack resource whose child loads.
C7_FailedChildDoesNotAbort ==
  \A uri \in Uris : \A i \in StacksWithUrl(uri) :
    FailsToLoad(files[TemplateUrlOf(i)]) =>
      LET atUrl == DiagnosticsAt(uri, TemplateUrlNode(uri, i).range[1],
                                 Len(TemplateUrlOf(i)))
      IN /\ Cardinality(atUrl) = 1 /\ Severities(uri, atUrl) = {"Error"}
         /\ \A k \in 1..Len(pass[uri].outputs) :
              ~StartsWith(pass[uri].outputs[k], StackName(i) \o ".Outputs.")
         /\ ParametersMatched(uri, i, {})
         /\ pass[uri].template.value = Plain("!Ref", "Zz") =>
              \E k \in 1..Len(diagnosticCollection[uri]) :
                diagnosticCollection[uri][k].message
                  = referenceTypeToDiagnosticMessage("REF", "Zz")
         /\ \A j \in StacksWithUrl(uri) \ {i} :
              ChildLoaded(files[TemplateUrlOf(j)])
                => ParametersMatched(uri, j, DeclaredBy(files[TemplateUrlOf(j)]))

-----------------------------------------------------------------------------
(* Properties of editing sessions (under Spec)                             *)

\* What a pass over the text the latest pass over uri read computes, starting from an
\* empty registry.
Recomputed(uri) ==
  checkYaml([u \in Uris |-> <<>>], uri, pass[uri].template, files).collection[uri]

\* C9: after any sequence of open, edit, save, editor-switch and close events the
\* diagnostics registered for a document are exactly those the most recent pass over
\* it computed, with nothing left of an earlier pass, and none once it is closed.
C9_ReplacedOnRecomputeDeletedOnClose ==
  \A uri \in Uris :
    /\ pass[uri].ran => diagnosticCollection[uri] = Recomputed(uri)
    /\ ~pass[uri].ran => diagnosticCollection[uri] = <<>>
    /\ ~documents[uri].open => diagnosticCollection[uri] = <<>>

\* One document whose latest pass found diagnostics of an earlier pass registered and
\* left none, beside a document that was closed with diagnostics registered.
C9_Witness ==
  \E uri, closed \in Uris :
    /\ pass[uri].ran /\ pass[uri].stale
    /\ diagnosticCollection[uri] = <<>>
    /\ ~documents[closed].open /\ pass[closed].stale

-----------------------------------------------------------------------------
(* Further properties of one pass (under SpecPass)                         *)

\* The value of the document the latest pass over uri read, as the parser sees it:
\* Resources.A.Properties.X or Outputs.O1.Value.
ValueNode(uri) ==
  LET document == Parse(pass[uri].template).document
  IN IF pass[uri].template.at = "Resources"
     THEN GetNode(GetNode(GetNode(GetNode(document, "Resources"), "A"), "Properties"), "X")
     ELSE GetNode(GetNode(GetNode(document, "Outputs"), "O1"), "Value")

\* The registered diagnostics of uri on the lines of a node.
DiagnosticsOn(uri, node) ==
  {k \in 1..Len(diagnosticCollection[uri]) :
     diagnosticCollection[uri][k].range[1] \in LinesOf(uri, node)}

\* A pass over a document whose value is a !Ref scalar that begins with 'AWS::'.
RefersToPseudoParameter(uri) ==
  /\ pass[uri].ran
  /\ pass[uri].template.value.tag = "!Ref"
  /\ IsScalarType(pass[uri].template.value.type)
  /\ Len(pass[uri].template.value.value) >= 5
  /\ SubSeq(pass[uri].template.value.value, 1, 5) = "AWS::"

\* C11: a !Ref scalar whose value begins with 'AWS::' yields no Reference and no
\* diagnostic, whatever names the document declares.
C11_PseudoParametersAreSkipped ==
  \A uri \in Uris :
    RefersToPseudoParameter(uri) =>
      /\ \A k \in 1..Len(pass[uri].nodesWhichReference) :
           pass[uri].nodesWhichReference[k].range # ValueNode(uri).range
      /\ DiagnosticsOn(uri, ValueNode(uri)) = {}

\* A completed pass over such a document, which declares names of its own.
C11_Witness ==
  \E uri \in Uris :
    /\ RefersToPseudoParameter(uri)
    /\ pass[uri].extracted /\ ~pass[uri].threw
    /\ pass[uri].template.decl # {}
    /\ pass[uri].template.value.type = "QUOTE_DOUBLE"

\* The !Ref, !GetAtt and !Sub scalars at and below a node, whatever collections lie
\* between; a !Ref of a pseudo-parameter is no reference (C11) and is left out.
RECURSIVE TaggedScalars(_)
TaggedScalars(node) ==
  (IF /\ IsScalarType(node.type)
      /\ node.tag \in {"!Ref", "!GetAtt", "!Sub"}
      /\ ~(node.tag = "!Ref" /\ Len(node.value) >= 5 /\ SubSeq(node.value, 1, 5) = "AWS::")
   THEN {node} ELSE {})
  \cup UNION {TaggedScalars(node.items[i]) : i \in 1..Len(node.items)}

\* Those of the Resources and Outputs subtrees of the document the latest pass read.
TaggedScalarsOf(uri) ==
  LET document == Parse(pass[uri].template).document
  IN TaggedScalars(GetNode(document, "Resources"))
     \cup TaggedScalars(GetNode(document, "Outputs"))

\* The referencing nodes the pass returned for a scalar: those at its place.
NodesReturnedFor(uri, scalar) ==
  {k \in 1..Len(pass[uri].nodesWhichReference) :
     pass[uri].nodesWhichReference[k].range = scalar.range}

\* C12: for every !Ref, !GetAtt or !Sub scalar in the Resources and Outputs subtrees,
\* at any depth under any combination of maps and sequences, block or flow style, the
\* extractor returns exactly one referencing node.
C12_EveryTaggedScalarIsReached ==
  \A uri \in Uris :
    pass[uri].extracted =>
      \A scalar \in TaggedScalarsOf(uri) : Cardinality(NodesReturnedFor(uri, scalar)) = 1

\* The names a child file declares with a Default key, whatever the default is.
DeclaredWithDefault(file) ==
  {name \in DeclaredBy(file) :
     GetNode(GetNode(GetNode(file.contents, "Parameters"), name), "Default").type
       # "UNDEFINED"}

\* C13: a child-declared parameter is recorded with hasDefault = true if and only if
\* its declaration has a Default key, be the default the empty string, 0 or false; so
\* a declared parameter with a Default that the parent does not supply is reported
\* with one Warning and no Error.
C13_AnyDefaultIsADefault ==
  \A uri \in Uris : \A i \in StacksWithUrl(uri) :
    LET file == files[TemplateUrlOf(i)]
        recorded == IF ChildLoaded(file) THEN ChildParameters(file.contents) ELSE <<>>
        found == DiagnosticsOfResource(uri, i)
    IN ~pass[uri].threw /\ ChildLoaded(file) =>
         /\ \A k \in 1..Len(recorded) :
              recorded[k].hasDefault <=> recorded[k].parameterName \in DeclaredWithDefault(file)
         /\ \A name \in DeclaredWithDefault(file)
                         \ SuppliedBy(pass[uri].template.stacks[i]) :
              /\ Cardinality(WithMessage(uri, found, {MissingDefaulted(name)})) = 1
              /\ Severities(uri, WithMessage(uri, found, {MissingDefaulted(name)}))
                   = {"Warning"}
              /\ WithMessage(uri, found, {MissingRequired(name)}) = {}

\* C14: a pass over a root document that parses never aborts part-way, whatever the
\* shape of its child-stack resources (no Properties, no Parameters block, a child
\* file that cannot be read): no exception ends it, and what it registers is not a
\* partial result, the diagnostic of the document's unresolved reference included.
C14_PassNeverAborts ==
  \A uri \in Uris :
    pass[uri].ran =>
      /\ ~pass[uri].threw
      /\ pass[uri].extracted
      /\ pass[uri].template.value = Plain("!Ref", "Zz") =>
           \E k \in 1..Len(diagnosticCollection[uri]) :
             diagnosticCollection[uri][k].message
               = referenceTypeToDiagnosticMessage("REF", "Zz")

-----------------------------------------------------------------------------
(* The registry entries of the other documents (under Spec)                *)

\* A step in which a handler ran checkYaml: every step but the close of a document.
PassStep == \A uri \in Uris : documents[uri].open => documents'[uri].open

\* C15: a pass over one document leaves the diagnostics registered for every other
\* document unchanged: whichever event triggers it, only the entry of the document in
\* the active editor changes.
C15_PassChangesOnlyActiveEntry ==
  [][PassStep =>
       \A uri \in Uris \ {activeTextEditor'} :
         diagnosticCollection'[uri] = diagnosticCollection[uri]]_vars

\* Two documents holding diagnostics: since those of the one were registered the other
\* became the active document, and its latest pass replaced diagnostics of its own.
C15_Witness ==
  \E A, B \in Uris :
    /\ A # B
    /\ activeTextEditor = A
    /\ pass[A].ran /\ pass[A].stale
    /\ pass[B].ran /\ diagnosticCollection[B] # <<>>

====
